---- MODULE Spec2Model ----
(***************************************************************************)
(* A model of package stdiocmd (src/stdiocmd.go): MessageServer.Serve's    *)
(* decode/dispatch loop, the handler goroutines it spawns, the             *)
(* EncoderMessageWriter / SyncEncoder write path and MessageServer.Wait.   *)
(*                                                                         *)
(* The decoder, the wrapped encoder and the handler are interfaces the     *)
(* caller supplies; they are modelled by what any implementation may do:   *)
(* the decoder yields a finite stream of results, the wrapped encoder's    *)
(* Encode takes time (it is entered and left in separate steps) and ends   *)
(* in success, an error or a panic, and a handler writes some replies and  *)
(* then returns, panics or blocks forever.                                 *)
(***************************************************************************)
EXTENDS Integers, Sequences, FiniteSets, TLC

\* Longest input stream (results of Decode before the end of the stream).
MaxLen == 2
\* Most WriteMessage calls one handler invocation makes.
MaxWrites == 1

\* The contents a well-formed message may have; Empty is make(Message) and
\* Partial what a failed Decode leaves in msg.
Payloads == {"m1", "m2"}
Empty == "empty"
Partial == "partial"
\* The errors Decode returns: nil, a recoverable one, and the two ends of
\* the stream.
Nil == "nil"
SyntaxError == "syntax error"
EOF == "EOF"
ErrUnexpectedEOF == "ErrUnexpectedEOF"
Terminators == {EOF, ErrUnexpectedEOF}
\* What one call of the wrapped Encoder's Encode ends in.
EncOutcomes == {"ok", "err", "panic"}

VARIABLES
    input,      \* the Decode results before the end of the stream
    term,       \* what Decode returns at the end of the stream
    sync,       \* OutEncoder is a SyncEncoder (NewStdMessageServer) or a bare Encoder
    sticky,     \* the decoder cannot get past a malformed message
    n,          \* the counter the test's handler shares between its invocations
    pos,        \* number of stream items Decode has consumed
    servepc,    \* Serve: "loop" | "add" | "spawn" | "returned"
    cur,        \* msg of the current loop iteration
    reterr,     \* Serve's named result
    lastres,    \* error of the latest Decode call ("none" before the first)
    decAfterEnd,\* a Decode call was made after one returned a terminator
    wg,         \* ms.wg: the WaitGroup's counter
    waiters,    \* ms.wg: the WaitGroup's waiter count
    gor,        \* the goroutines Serve spawned, in spawn order
    mu,         \* se.mu: 0 when free, else the goroutine holding it
    acq,        \* the Encode calls that acquired se.mu, in acquisition order
    out,        \* what the wrapped encoder has written, in order
    waitpc,     \* the caller of Wait(): "idle" | "blocked" | "woken" | "returned"
    waitAfter,  \* Wait() was called after Serve() had returned
    crashed     \* "" or the unrecovered panic that ended the process

vars == <<input, term, sync, sticky, n, pos, servepc, cur, reterr, lastres,
          decAfterEnd, wg, waiters, gor, mu, acq, out, waitpc, waitAfter, crashed>>

serveVars == <<pos, servepc, cur, reterr, lastres, decAfterEnd>>
\* What the caller supplies: the decoder, the encoder and the handler's state.
envVars == <<input, term, sync, sticky, n>>
waitVars == <<waitpc, waitAfter>>

RECURSIVE SeqsUpTo(_, _)
SeqsUpTo(S, len) ==
    IF len = 0 THEN {<<>>}
    ELSE LET shorter == SeqsUpTo(S, len - 1)
         IN shorter \cup {Append(s, x) : s \in {t \in shorter : Len(t) = len - 1}, x \in S}

\* What one Decode call gives: its error and what it left in msg.
Items == {[err |-> Nil, msg |-> p] : p \in Payloads}
             \cup {[err |-> SyntaxError, msg |-> Partial]}

Streams == SeqsUpTo(Items, MaxLen)

Init ==
    /\ input \in Streams
    /\ term \in Terminators
    /\ sync \in BOOLEAN
    /\ sticky \in BOOLEAN
    /\ n = 0
    /\ pos = 0
    /\ servepc = "loop"
    /\ cur = Empty
    /\ reterr = Nil
    /\ lastres = "none"
    /\ decAfterEnd = FALSE
    /\ wg = 0
    /\ waiters = 0
    /\ gor = <<>>
    /\ mu = 0
    /\ acq = <<>>
    /\ out = <<>>
    /\ waitpc = "idle"
    /\ waitAfter = FALSE
    /\ crashed = ""

\* The process runs until an unrecovered panic ends it.
Alive == crashed = ""

\* ms.InDecoder.Decode(&msg): the next result of the stream; the end of the
\* stream is reported on every call made there.
Decode == IF pos < Len(input) THEN input[pos + 1] ELSE [err |-> term, msg |-> Empty]

\* The decoder's position after that call: a decoder that cannot recover
\* from a malformed message (json.Decoder keeps its error) stays on it.
Consumed ==
    IF pos < Len(input) /\ ~(sticky /\ input[pos + 1].err = SyntaxError)
      THEN pos + 1
      ELSE pos

\* A loop that ends on any decode error.
IsTerminalAnyError(err) == err # Nil

\* A loop that ends on io.EOF alone.
IsTerminalEOFOnly(err) == err = EOF

\* line 100: err == io.EOF || err == io.ErrUnexpectedEOF
IsTerminal(err) == err = EOF \/ err = ErrUnexpectedEOF

\* A loop without the continue of line 105: a failed Decode falls through
\* to the dispatch.
IsRecoverableFallsThrough(err) == FALSE

\* line 103: else if err != nil
IsRecoverable(err) == err # Nil

\* A loop without the break of line 102: it sets reterr and goes on.
AfterBreakMissing == "loop"

\* lines 102 and 120: break leaves the loop and Serve() returns.
AfterBreak == "returned"

\* lines 97-106: one Decode and the branch on its result.
ServeDecode ==
    /\ Alive
    /\ servepc = "loop"
    /\ LET res == Decode IN
        /\ lastres' = res.err
        /\ pos' = Consumed
        /\ decAfterEnd' = (decAfterEnd \/ lastres \in Terminators)
        /\ cur' = res.msg
        /\ IF IsTerminal(res.err)
             THEN /\ reterr' = res.err
                  /\ servepc' = AfterBreak
             ELSE IF IsRecoverable(res.err)
             THEN /\ servepc' = "loop"
                  /\ UNCHANGED reterr
             ELSE /\ servepc' = "add"
                  /\ UNCHANGED reterr
    /\ UNCHANGED <<envVars, wg, waiters, gor, mu, acq, out, waitVars, crashed>>

\* A loop that forgets ms.wg.Add(1).
WgAddMissing(c) == c

\* ms.wg.Add(1): the counter after the call.
WgAdd(c) == c + 1

\* sync.WaitGroup.Add panics when it raises the counter from zero while a
\* Wait() is registered: "WaitGroup misuse: Add called concurrently with Wait".
AddMisuse == waiters # 0 /\ WgAdd(wg) = 1

\* line 107: ms.wg.Add(1), in the loop's own goroutine.
ServeAdd ==
    /\ Alive
    /\ servepc = "add"
    /\ IF AddMisuse
         THEN /\ crashed' = "Add called concurrently with Wait"
              /\ UNCHANGED <<wg, servepc>>
         ELSE /\ wg' = WgAdd(wg)
              /\ servepc' = "spawn"
              /\ UNCHANGED crashed
    /\ UNCHANGED <<envVars, pos, cur, reterr, lastres, decAfterEnd, waiters,
                   gor, mu, acq, out, waitVars>>

\* A reply that carries no counter value.
NoValue == "none"

\* The goroutine line 108 starts: its position, the msg it was given, the
\* WriteMessage calls it has made, the Encode calls made on the wrapped
\* encoder for them, the outcome of the Encode in progress, the error its
\* latest WriteMessage returned, whether HandleMessage panicked, and for the
\* test's handler the counter value in its reply and the value it read to
\* increment.
NewGoroutine(m) ==
    [pc |-> "spawned", msg |-> m, writes |-> 0, encs |-> 0, enc |-> "none",
     err |-> "none", panicked |-> FALSE, val |-> NoValue, tmp |-> 0]

\* A go statement that hands the goroutine a message of its own making
\* instead of the decoded one.
SpawnArgFresh == Empty

\* line 117: the msg argument of the go statement.
SpawnArg == cur

\* A loop that calls the handler in line (no go statement): it goes on only
\* when the handlers before have finished.
ServeSpawnWaits ==
    /\ Alive
    /\ servepc = "spawn"
    /\ \A h \in 1..Len(gor) : gor[h].pc = "done"
    /\ gor' = Append(gor, NewGoroutine(cur))
    /\ servepc' = "loop"
    /\ cur' = Empty
    /\ UNCHANGED <<envVars, pos, reterr, lastres, decAfterEnd, wg, waiters,
                   mu, acq, out, waitVars, crashed>>

\* lines 108-117: the go statement; the loop goes on to its next iteration.
ServeSpawn ==
    /\ Alive
    /\ servepc = "spawn"
    /\ gor' = Append(gor, NewGoroutine(SpawnArg))
    /\ servepc' = "loop"
    /\ cur' = Empty
    /\ UNCHANGED <<envVars, pos, reterr, lastres, decAfterEnd, wg, waiters,
                   mu, acq, out, waitVars, crashed>>

Goroutines == 1..Len(gor)

\* line 116: the goroutine is scheduled and calls mh.HandleMessage(mw, msg).
HandlerStart(h) ==
    /\ Alive
    /\ gor[h].pc = "spawned"
    /\ gor' = [gor EXCEPT ![h].pc = "running"]
    /\ UNCHANGED <<envVars, serveVars, wg, waiters, mu, acq, out, waitVars, crashed>>

\* The handler calls w.WriteMessage(reply) (lines 27-29), which calls
\* emw.Encoder.Encode.
HandlerWrite(h) ==
    /\ Alive
    /\ gor[h].pc = "running"
    /\ gor[h].writes < MaxWrites
    /\ gor' = [gor EXCEPT ![h].pc = "calling", ![h].writes = @ + 1]
    /\ UNCHANGED <<envVars, serveVars, wg, waiters, mu, acq, out, waitVars, crashed>>

\* A SyncEncoder whose Encode does not take the lock.
LockAcquirableNoLock == TRUE

\* line 48: se.mu.Lock() returns once the mutex is free; a bare Encoder
\* (the struct built directly, as in the test) takes no lock.
LockAcquirable == (~sync) \/ mu = 0

\* One piece of a reply as the wrapped encoder writes it.
Chunk(h, w, part) == <<h, w, part>>

\* lines 48-50 (or line 28 with a bare Encoder): the wrapped encoder's Encode
\* is entered, to end in res; a successful one starts writing the reply.
EncodeEnterWith(h, res) ==
    /\ Alive
    /\ gor[h].pc = "calling"
    /\ LockAcquirable
    /\ gor' = [gor EXCEPT ![h].pc = "encoding", ![h].enc = res,
                          ![h].encs = @ + 1]
    /\ out' = IF res = "ok"
                THEN Append(out, Chunk(h, gor[h].writes, "open"))
                ELSE out
    /\ mu' = IF sync THEN h ELSE mu
    /\ acq' = IF sync THEN Append(acq, <<h, gor[h].writes>>) ELSE acq
    /\ UNCHANGED <<envVars, serveVars, wg, waiters, waitVars, crashed>>

\* The encoder is the caller's: its Encode may succeed, fail or panic.
EncodeEnter(h) == \E res \in EncOutcomes : EncodeEnterWith(h, res)

\* An Unlock that is not deferred and is skipped when Encode fails.
AfterUnlockOnSuccessOnly(res) == IF res = "ok" THEN 0 ELSE mu

\* line 49: defer se.mu.Unlock(): the mutex after Encode ended in res.
AfterUnlock(res) == 0

\* line 50 and line 28: the error WriteMessage returns for the wrapped
\* encoder's error.
WriteResult(res) == res

\* A WriteMessage that calls Encode again when it fails.
AfterWriteRetry(g, res) ==
    IF res = "err"
      THEN [g EXCEPT !.pc = "calling", !.enc = "none"]
      ELSE [g EXCEPT !.pc = "running", !.enc = "none", !.err = res]

\* lines 27-29: WriteMessage returns that error to the handler that called
\* it, which runs on.
AfterWrite(g, res) ==
    [g EXCEPT !.pc = "running", !.enc = "none", !.err = WriteResult(res)]

\* A goroutine without the deferred recover().
PanicNotRecovered == FALSE

\* lines 110-115: the deferred recover() stops a panic of HandleMessage.
PanicRecovered == TRUE

\* HandleMessage has ended in its goroutine, normally or by a panic.
AfterHandler(g, p) ==
    IF p /\ ~PanicRecovered
      THEN [g EXCEPT !.pc = "dead", !.panicked = TRUE]
      ELSE [g EXCEPT !.pc = "exiting", !.panicked = p]

CrashIfUnrecovered(p) ==
    crashed' = IF p /\ ~PanicRecovered THEN "panic in handler goroutine" ELSE crashed

\* The wrapped encoder's Encode ends: a successful one has written the whole
\* reply; the SyncEncoder unlocks; an error goes back to the handler, a panic
\* unwinds HandleMessage.
EncodeExit(h) ==
    /\ Alive
    /\ gor[h].pc = "encoding"
    /\ LET res == gor[h].enc IN
        /\ out' = IF res = "ok"
                    THEN Append(out, Chunk(h, gor[h].writes, "close"))
                    ELSE out
        /\ mu' = IF sync THEN AfterUnlock(res) ELSE mu
        /\ IF res = "panic"
             THEN /\ gor' = [gor EXCEPT ![h] = AfterHandler([@ EXCEPT !.enc = "none"], TRUE)]
                  /\ CrashIfUnrecovered(TRUE)
             ELSE /\ gor' = [gor EXCEPT ![h] = AfterWrite(@, res)]
                  /\ UNCHANGED crashed
    /\ UNCHANGED <<envVars, serveVars, wg, waiters, acq, waitVars>>

\* HandleMessage returns, or panics on its own.
HandlerFinish(h) ==
    /\ Alive
    /\ gor[h].pc = "running"
    /\ \E p \in BOOLEAN :
        /\ gor' = [gor EXCEPT ![h] = AfterHandler(@, p)]
        /\ CrashIfUnrecovered(p)
    /\ UNCHANGED <<envVars, serveVars, wg, waiters, mu, acq, out, waitVars>>

\* HandleMessage blocks forever.
HandlerHang(h) ==
    /\ Alive
    /\ gor[h].pc = "running"
    /\ gor' = [gor EXCEPT ![h].pc = "hung"]
    /\ UNCHANGED <<envVars, serveVars, wg, waiters, mu, acq, out, waitVars, crashed>>

\* A goroutine that never calls Done.
WgDoneMissing(c) == c

\* defer ms.wg.Done(): the counter after the call.
WgDone(c) == c - 1

\* line 109: the deferred ms.wg.Done(). It lowers the counter; the call that
\* brings it to zero with a Wait() registered goes on to release it.
GoroutineDone(h) ==
    /\ Alive
    /\ gor[h].pc = "exiting"
    /\ wg' = WgDone(wg)
    /\ IF wg' < 0
         THEN /\ crashed' = "negative WaitGroup counter"
              /\ gor' = [gor EXCEPT ![h].pc = "dead"]
         ELSE /\ gor' = [gor EXCEPT ![h].pc =
                            IF wg' = 0 /\ waiters # 0 THEN "releasing" ELSE "done"]
              /\ UNCHANGED crashed
    /\ UNCHANGED <<envVars, serveVars, waiters, mu, acq, out, waitVars>>

\* line 109, the rest of Done(): the waiter count is reset and the blocked
\* Wait() is woken.
GoroutineRelease(h) ==
    /\ Alive
    /\ gor[h].pc = "releasing"
    /\ waiters' = 0
    /\ waitpc' = IF waitpc = "blocked" THEN "woken" ELSE waitpc
    /\ gor' = [gor EXCEPT ![h].pc = "done"]
    /\ UNCHANGED <<envVars, serveVars, wg, mu, acq, out, waitAfter, crashed>>

\* A Wait() that does not look at the counter.
WaitPassesAlways == TRUE

\* line 90: ms.wg.Wait() returns at once when the counter is zero.
WaitPasses == wg = 0

\* lines 89-91: Wait() is called, at any moment the caller chooses (once, as
\* in the test); it returns at once or registers as a waiter.
WaitCall ==
    /\ Alive
    /\ waitpc = "idle"
    /\ waitAfter' = (servepc = "returned")
    /\ IF WaitPasses
         THEN /\ waitpc' = "returned"
              /\ UNCHANGED waiters
         ELSE /\ waitpc' = "blocked"
              /\ waiters' = waiters + 1
    /\ UNCHANGED <<envVars, serveVars, wg, gor, mu, acq, out, crashed>>

\* line 90: the woken Wait() returns; sync.WaitGroup.Wait panics when the
\* WaitGroup is in use again by then: "WaitGroup is reused before previous
\* Wait has returned".
WaitWake ==
    /\ Alive
    /\ waitpc = "woken"
    /\ IF wg # 0 \/ waiters # 0
         THEN /\ crashed' = "WaitGroup is reused before previous Wait has returned"
              /\ UNCHANGED waitpc
         ELSE /\ waitpc' = "returned"
              /\ UNCHANGED crashed
    /\ UNCHANGED <<envVars, serveVars, wg, waiters, gor, mu, acq, out, waitAfter>>

Serve == ServeDecode \/ ServeAdd \/ ServeSpawn

Goroutine(h) ==
    \/ HandlerStart(h)
    \/ HandlerWrite(h)
    \/ EncodeEnter(h)
    \/ EncodeExit(h)
    \/ HandlerFinish(h)
    \/ HandlerHang(h)
    \/ GoroutineDone(h)
    \/ GoroutineRelease(h)

Wait == WaitCall \/ WaitWake

Next == Serve \/ (\E h \in Goroutines : Goroutine(h)) \/ Wait

Spec == Init /\ [][Next]_vars

\* The steps of a goroutine that the Go scheduler and the collaborators'
\* termination take: all but the handler's own choice to write or to block.
GoroutineProgress(h) ==
    /\ h \in Goroutines
    /\ \/ HandlerStart(h)
       \/ EncodeExit(h)
       \/ HandlerFinish(h)
       \/ GoroutineDone(h)
       \/ GoroutineRelease(h)

\* Every runnable goroutine is scheduled, and a goroutine blocked in
\* se.mu.Lock() gets the mutex when it is free again and again
\* (sync.Mutex hands over to a starving waiter).
Fairness ==
    /\ WF_vars(Serve)
    /\ WF_vars(WaitWake)
    /\ \A h \in 1..MaxLen :
        /\ WF_vars(GoroutineProgress(h))
        /\ SF_vars(h \in Goroutines /\ EncodeEnter(h))

FairSpec == Spec /\ Fairness

(***************************************************************************)
(* What the properties below speak of.                                     *)
(***************************************************************************)

\* The well-formed messages among the Decode results s, in arrival order.
MessagesOf(s) ==
    LET ok == SelectSeq(s, LAMBDA i : i.err = Nil)
    IN [k \in 1..Len(ok) |-> ok[k].msg]

\* The messages dispatched so far, in dispatch order.
Dispatched == [k \in 1..Len(gor) |-> gor[k].msg]

AllWellFormed == \A i \in 1..Len(input) : input[i].err = Nil

\* The goroutines inside the wrapped encoder's Encode.
InEncode == {h \in Goroutines : gor[h].pc = "encoding"}

\* The goroutines whose HandleMessage has been called.
Invoked == {h \in Goroutines : gor[h].pc # "spawned"}

\* Serve() has returned and a Wait() called after that has returned.
Drained == servepc = "returned" /\ waitAfter /\ waitpc = "returned"

OpenChunks == {i \in 1..Len(out) : out[i][3] = "open"}
CloseChunks == {i \in 1..Len(out) : out[i][3] = "close"}

\* Every reply begun on the output has been written to its end.
WritesComplete ==
    /\ \A h \in Goroutines : gor[h].pc \notin {"calling", "encoding"}
    /\ \A i \in OpenChunks : \E j \in CloseChunks :
          j > i /\ out[j][1] = out[i][1] /\ out[j][2] = out[i][2]

\* C1: for an input of N well-formed messages and then the end of the
\* stream, once Serve() has returned and a Wait() called after it has
\* returned, the handler has been invoked exactly N times, the k-th
\* dispatch with the k-th decoded message as its argument.
C1_EachMessageHandledOnceInOrder ==
    (AllWellFormed /\ Drained) =>
        /\ Len(gor) = Len(input)
        /\ Cardinality(Invoked) = Len(input)
        /\ \A k \in 1..Len(input) : gor[k].msg = input[k].msg
        /\ Dispatched = MessagesOf(input)

C1_Witness ==
    /\ AllWellFormed /\ Drained
    /\ Len(input) = 2 /\ input[1].msg # input[2].msg
    /\ \A h \in Goroutines : gor[h].pc = "done"

\* C2: in every reachable state at most one Encode on the server's
\* underlying output encoder is in progress, whether OutEncoder is a
\* SyncEncoder or any Encoder the struct was built with.
C2_AtMostOneEncodeAnyServer == Cardinality(InEncode) <= 1

\* C3: with a SyncEncoder at most one caller is executing the wrapped
\* Encoder's Encode, and no caller's encode starts between the start and the
\* end of another's: each reply's end follows its start directly on the
\* output.
C3_SyncEncoderMutualExclusion ==
    sync =>
        /\ Cardinality(InEncode) <= 1
        /\ \A i \in OpenChunks :
              \/ i = Len(out) /\ InEncode = {out[i][1]}
              \/ /\ i < Len(out)
                 /\ out[i + 1] = Chunk(out[i][1], out[i][2], "close")

C3_Witness ==
    /\ sync
    /\ \E h, g \in Goroutines :
          /\ gor[h].pc = "encoding" /\ gor[h].enc = "ok"
          /\ gor[g].pc = "calling"

\* C4: a Wait() called after Serve() has returned does not return while a
\* handler dispatched by that Serve() is still running; every write made
\* inside a handler invocation is complete when it returns.
C4_DrainSafety ==
    (waitAfter /\ waitpc = "returned") =>
        /\ servepc = "returned"
        /\ Dispatched = MessagesOf(input)
        /\ \A h \in Goroutines : gor[h].pc = "done"
        /\ WritesComplete

C4_Witness ==
    /\ waitAfter /\ waitpc = "returned"
    /\ Len(gor) = 2
    /\ Cardinality(CloseChunks) = 2

SomeHung == \E h \in Goroutines : gor[h].pc = "hung"

\* C5: after Serve() has returned, under fair scheduling a Wait() that
\* blocks returns, unless a handler invocation never finishes; a handler
\* that panicked has lowered the counter like one that returned.
C5_DrainLiveness ==
    (waitAfter /\ waitpc = "blocked") ~> (waitpc = "returned" \/ SomeHung)

C5_Witness ==
    /\ waitAfter /\ waitpc = "woken"
    /\ \E h, g \in Goroutines :
          /\ gor[h].panicked /\ gor[h].pc = "done"
          /\ ~gor[g].panicked /\ gor[g].pc = "done"

\* C6: a Decode error other than io.EOF / io.ErrUnexpectedEOF leaves Serve()
\* in its loop, and the well-formed messages decoded, those after a
\* malformed one included, are all dispatched: when Serve() is at the top of
\* its loop or has returned, the dispatched messages are the well-formed
\* ones among the results decoded so far.
C6_MalformedDoesNotStopLoop ==
    /\ lastres = SyntaxError => servepc = "loop"
    /\ servepc \in {"loop", "returned"} =>
          Dispatched = MessagesOf(SubSeq(input, 1, pos))
    /\ servepc = "returned" => pos = Len(input)

C6_Witness ==
    /\ servepc = "returned"
    /\ Len(input) = 2
    /\ input[1].err = SyntaxError /\ input[2].err = Nil
    /\ Len(gor) = 1 /\ gor[1].msg = input[2].msg /\ gor[1].pc = "done"

\* C7: a panic of a handler invocation is caught in its own goroutine: it
\* does not end the process, the step that panics changes neither Serve()'s
\* state and result nor another goroutine, and the messages decoded after
\* it are dispatched as without it.
C7_HandlerPanicIsolated ==
    /\ [](crashed # "panic in handler goroutine")
    /\ [](\A h \in Goroutines :
            gor[h].panicked => gor[h].pc \in {"exiting", "releasing", "done"})
    /\ []((servepc = "returned" /\ \E h \in Goroutines : gor[h].panicked) =>
            (reterr = term /\ Dispatched = MessagesOf(input)))
    /\ [][\A h \in Goroutines :
            (~gor[h].panicked /\ gor'[h].panicked) =>
                /\ UNCHANGED <<serveVars, wg, waiters, waitVars, crashed>>
                /\ Len(gor') = Len(gor)
                /\ \A g \in Goroutines \ {h} : gor'[g] = gor[g]]_vars

C7_Witness ==
    /\ servepc = "returned"
    /\ Len(gor) = 2
    /\ gor[1].panicked /\ gor[1].pc = "done"
    /\ ~gor[2].panicked /\ gor[2].pc = "done"

C9_LockReleasedOnEveryExit ==
    /\ [](sync => (mu # 0 => (mu \in Goroutines /\ gor[mu].pc = "encoding")))
    /\ [][\A h \in Goroutines :
            (sync /\ gor[h].pc = "encoding" /\ gor'[h].pc # "encoding") =>
                /\ mu' = 0
                /\ gor[h].enc # "panic" =>
                      (gor'[h].pc = "running" /\ gor'[h].err = gor[h].enc)
                /\ gor[h].enc = "panic" => gor'[h].panicked]_vars

C9_Witness ==
    /\ sync
    /\ \E h, g \in Goroutines :
          /\ gor[h].err = "err" /\ gor[h].pc \in {"running", "exiting", "done"}
          /\ gor[g].pc = "encoding" /\ mu = g

WriteFailed == \E h \in Goroutines : gor[h].err = "err"

\* C11: as Serve()'s doc comment says, an error returned by the output
\* encoder during a handler's WriteMessage makes Serve() stop, as an
\* unrecoverable decoder error does: once a write has failed, Serve() at the
\* top of its loop takes no further item from the input stream.
C11_ServeStopsOnEncoderError ==
    [][(WriteFailed /\ servepc = "loop") => pos' = pos]_vars

(***************************************************************************)
(* TestMessageServer (src/stdiocmd_test.go): the server is built from the  *)
(* struct with a bare json.Encoder, the handler writes one reply carrying  *)
(* the shared counter n and increments it, and Wait() follows Serve().     *)
(***************************************************************************)

\* test line 17: the goroutine is scheduled and calls the test's handler.
TestStart(h) ==
    /\ Alive
    /\ gor[h].pc = "spawned"
    /\ gor' = [gor EXCEPT ![h].pc = "t_reply"]
    /\ UNCHANGED <<envVars, serveVars, wg, waiters, mu, acq, out, waitVars, crashed>>

\* test line 21: reply["is_reply"] = n
TestReply(h) ==
    /\ Alive
    /\ gor[h].pc = "t_reply"
    /\ gor' = [gor EXCEPT ![h].pc = "t_load", ![h].val = n]
    /\ UNCHANGED <<envVars, serveVars, wg, waiters, mu, acq, out, waitVars, crashed>>

\* test line 22: n++ reads n ...
TestLoad(h) ==
    /\ Alive
    /\ gor[h].pc = "t_load"
    /\ gor' = [gor EXCEPT ![h].pc = "t_store", ![h].tmp = n]
    /\ UNCHANGED <<envVars, serveVars, wg, waiters, mu, acq, out, waitVars, crashed>>

\* ... and writes it back, with no synchronisation between the two.
TestStore(h) ==
    /\ Alive
    /\ gor[h].pc = "t_store"
    /\ n' = gor[h].tmp + 1
    /\ gor' = [gor EXCEPT ![h].pc = "t_write"]
    /\ UNCHANGED <<input, term, sync, sticky, serveVars, wg, waiters, mu, acq,
                   out, waitVars, crashed>>

\* test line 23: w.WriteMessage(reply)
TestWrite(h) ==
    /\ Alive
    /\ gor[h].pc = "t_write"
    /\ gor' = [gor EXCEPT ![h].pc = "calling", ![h].writes = @ + 1]
    /\ UNCHANGED <<envVars, serveVars, wg, waiters, mu, acq, out, waitVars, crashed>>

\* json.Encoder.Encode of a map of ints into a bytes.Buffer returns no error.
TestEncodeEnter(h) == EncodeEnterWith(h, "ok")

\* test line 25: the handler returns.
TestFinish(h) ==
    /\ Alive
    /\ gor[h].pc = "running"
    /\ gor' = [gor EXCEPT ![h] = AfterHandler(@, FALSE)]
    /\ UNCHANGED <<envVars, serveVars, wg, waiters, mu, acq, out, waitVars, crashed>>

\* test lines 40-42: ms.Serve() and then ms.Wait().
TestWaitCall == servepc = "returned" /\ WaitCall

\* test lines 27-34: well-formed messages only, a bare Encoder.
TestInit ==
    /\ Init
    /\ ~sync
    /\ ~sticky
    /\ \A i \in 1..Len(input) : input[i].err = Nil

TestGoroutine(h) ==
    \/ TestStart(h)
    \/ TestReply(h)
    \/ TestLoad(h)
    \/ TestStore(h)
    \/ TestWrite(h)
    \/ TestEncodeEnter(h)
    \/ EncodeExit(h)
    \/ TestFinish(h)
    \/ GoroutineDone(h)
    \/ GoroutineRelease(h)

TestNext ==
    \/ Serve
    \/ \E h \in Goroutines : TestGoroutine(h)
    \/ TestWaitCall
    \/ WaitWake

TestSpec == TestInit /\ [][TestNext]_vars

\* The output holds a whole reply with counter value v: its end follows its
\* start directly, so that it parses on its own.
HasReply(v) ==
    \E i \in 1..(Len(out) - 1) :
        /\ out[i][3] = "open"
        /\ gor[out[i][1]].val = v
        /\ out[i + 1] = Chunk(out[i][1], out[i][2], "close")

\* C12: in the test's scenario, for N well-formed messages, once Serve() and
\* then Wait() have returned the output holds a complete, independently
\* parseable reply for every index 0..N-1, in every interleaving of the
\* handler goroutines.
C12_TestOutputHasEveryReply ==
    Drained => \A v \in 0..(Len(input) - 1) : HasReply(v)

\* C13: Serve() never waits for a handler: whatever the dispatched handlers
\* are doing (blocked forever, or blocked on the writer lock), its next step
\* can be taken until it has returned, and its steps leave the running
\* goroutines as they are (they are not cancelled, also not by its return).
C13_ServeNeverWaitsForHandler ==
    /\ []((Alive /\ servepc # "returned") => ENABLED Serve)
    /\ [][(servepc' # servepc \/ lastres' # lastres) =>
            \A h \in Goroutines : gor'[h] = gor[h]]_vars

C13_Witness ==
    /\ servepc = "returned"
    /\ sync
    /\ Len(gor) = 2
    /\ gor[1].pc = "hung"
    /\ gor[2].pc = "encoding"

\* The replies completed on the wrapped encoder, in the order of their ends.
Completed ==
    LET done == SelectSeq(out, LAMBDA c : c[3] = "close")
    IN [k \in 1..Len(done) |-> <<done[k][1], done[k][2]>>]

\* The lock acquisitions whose reply has been completed, in acquisition
\* order.
AcquiredCompleted ==
    SelectSeq(acq, LAMBDA a : \E i \in 1..Len(out) :
                                  out[i] = Chunk(a[1], a[2], "close"))

\* C14: through one SyncEncoder the completed messages appear on the
\* wrapped encoder in the order in which their Encode calls acquired the
\* lock, and a message that is partly written is the lock holder's and the
\* last thing on the output: nobody appends to it meanwhile.
C14_WritesInLockOrder ==
    sync =>
        /\ Completed = AcquiredCompleted
        /\ \A i \in 1..Len(out) :
              (out[i][3] = "open" /\ Chunk(out[i][1], out[i][2], "close") \notin
                   {out[j] : j \in 1..Len(out)})
              => (i = Len(out) /\ mu = out[i][1])

C14_Witness ==
    /\ sync
    /\ Len(Completed) = 2
    /\ Completed[1][1] = 2 /\ Completed[2][1] = 1
    /\ Len(acq) = 2 /\ acq[1][1] = 2

\* The goroutines whose deferred wg.Done() has not lowered the counter yet:
\* spawned, running, writing, blocked or about to call Done.
InFlight == {h \in Goroutines : gor[h].pc \notin {"releasing", "done"}}

\* The invocation whose wg.Add(1) is done and whose go statement is next.
BeingSpawned == IF servepc = "spawn" THEN 1 ELSE 0

\* C15: the loop increments the counter before it spawns the goroutine and
\* each goroutine decrements it once, when it finishes: the counter is the
\* number of dispatched invocations that have not completed (those spawned
\* and not yet started, and the one being spawned, included), it is never
\* negative, and it is zero only when every dispatched invocation is done.
C15_CounterIsInFlightCount ==
    /\ [](wg = Cardinality(InFlight) + BeingSpawned)
    /\ [](wg >= 0)
    /\ [](wg = 0 => \A h \in Goroutines : gor[h].pc \in {"releasing", "done"})
    /\ [][wg' > wg => (wg' = wg + 1 /\ servepc = "add" /\ servepc' = "spawn"
                        /\ gor' = gor)]_vars
    /\ [][wg' < wg => (wg' = wg - 1 /\ \E h \in Goroutines :
                          /\ gor[h].pc = "exiting"
                          /\ gor'[h].pc \in {"releasing", "done"})]_vars

C15_Witness ==
    /\ wg = 2
    /\ servepc = "spawn"
    /\ Len(gor) = 1 /\ gor[1].pc = "spawned"

\* The Decode calls so far that returned nil.
NilDecodes == Len(MessagesOf(SubSeq(input, 1, pos)))

\* The decoded message the loop is dispatching (between Decode and the end
\* of the go statement).
BeingDispatched == IF servepc \in {"add", "spawn"} THEN 1 ELSE 0

\* C16: a Decode that returns an error, recoverable or the end of the
\* stream, dispatches nothing: that loop iteration leaves the counter, the
\* goroutines and the output as they were; no handler is ever given the
\* partly decoded message; and the handler invocations are as many as the
\* Decode calls that returned nil.
C16_FailedDecodeDispatchesNothing ==
    /\ [](\A h \in Goroutines : gor[h].msg \in Payloads)
    /\ [](servepc \in {"add", "spawn"} => (lastres = Nil /\ cur \in Payloads))
    /\ [](Len(gor) + BeingDispatched = NilDecodes)
    /\ [](servepc = "returned" => Len(gor) = NilDecodes)
    /\ [][(serveVars' # serveVars /\ servepc = "loop" /\ lastres' # Nil) =>
            (/\ servepc' \in {"loop", "returned"}
             /\ UNCHANGED <<wg, waiters, gor, mu, acq, out>>)]_vars

C16_Witness ==
    /\ servepc = "returned"
    /\ Len(input) = 2
    /\ input[1].err = Nil /\ input[2].err = SyntaxError
    /\ Len(gor) = 1 /\ gor[1].pc = "done"
    /\ Len(out) = 2

\* The decoder has returned a malformed-message error it cannot get past.
Stuck == sticky /\ lastres = SyntaxError

\* C17: when the decoder returns the same non-end-of-stream error on every
\* call after a malformed message, Serve() loops on that error for ever: it
\* stays at the top of its loop with Decode as its next step, never returns
\* and never dispatches another message, although the stream is finite and
\* holds further messages.
C17_StuckDecoderSpinsForever ==
    /\ [](Stuck => (servepc = "loop" /\ reterr = Nil /\ pos < Len(input)
                     /\ input[pos + 1].err = SyntaxError))
    /\ []((Stuck /\ Alive) => ENABLED ServeDecode)
    /\ [][Stuck => (UNCHANGED serveVars /\ Len(gor') = Len(gor) /\ wg' <= wg)]_vars

C17_Witness ==
    /\ Stuck
    /\ Len(input) = 2
    /\ input[1].err = SyntaxError /\ input[2].err = Nil
    /\ gor = <<>>

\* C18: Wait() may be called while Serve() is running: in no interleaving of
\* a Wait() call with Serve()'s increments of the in-flight counter is an
\* error state reached (a WaitGroup misuse panic, which ends the process
\* and with it the dispatch of the messages still to come).
C18_ConcurrentWaitIsSafe == crashed = ""

\* A Decode call has returned the end of the stream.
EndSeen == lastres \in Terminators

\* running (0), draining (1: the end seen, handlers in flight), stopped (2).
Phase == IF ~EndSeen THEN 0 ELSE IF wg > 0 THEN 1 ELSE 2

\* C19: the server moves only forward through running, draining and
\* stopped. Once the end of the stream has been seen Serve() has returned:
\* it makes no further Decode, no new handler is dispatched, and the
\* in-flight counter never rises again; it falls to zero and stays there.
C19_LifecycleMonotonic ==
    /\ [](EndSeen => servepc = "returned")
    /\ [](~decAfterEnd)
    /\ [][Phase' >= Phase]_vars
    /\ [][EndSeen => (/\ UNCHANGED serveVars
                      /\ Len(gor') = Len(gor)
                      /\ wg' <= wg
                      /\ wg' >= 0)]_vars

C19_Witness ==
    /\ Phase = 2
    /\ Len(gor) = 2
    /\ waitAfter /\ waitpc = "woken"

\* Goroutine h is inside WriteMessage, waiting for se.mu.
WaitingForLock(h) == h \in Goroutines /\ gor[h].pc = "calling"

\* Goroutine h is inside WriteMessage: waiting for se.mu or holding it.
InWriteMessage(h) == h \in Goroutines /\ gor[h].pc \in {"calling", "encoding"}

\* C20: with a SyncEncoder, when every call of the wrapped Encode returns
\* and the lock is acquired fairly, every handler waiting for the lock gets
\* it and its WriteMessage returns (or unwinds by the encoder's panic), for
\* as long as the process runs; whenever a handler waits for the lock,
\* either a goroutine inside the wrapped Encode holds it or the waiting
\* handler can take it; and the decode loop's next step never depends on
\* the lock.
C20_WriterProgress ==
    /\ \A h \in 1..MaxLen :
          (sync /\ WaitingForLock(h)) ~>
              (~Alive \/ ~InWriteMessage(h))
    /\ []((sync /\ Alive) => \A h \in Goroutines :
            WaitingForLock(h) =>
                \/ (mu \in Goroutines /\ gor[mu].pc = "encoding"
                      /\ ENABLED EncodeExit(mu))
                \/ (mu = 0 /\ ENABLED EncodeEnter(h)))
    /\ []((sync /\ Alive /\ mu # 0 /\ servepc # "returned") => ENABLED Serve)

C20_Witness ==
    /\ sync
    /\ Len(acq) = 2
    /\ acq[1][1] = 1 /\ acq[2][1] = 2
    /\ gor[1].err = "err"
    /\ gor[2].pc = "running" /\ gor[2].err = "ok"

====
